---- MODULE Spec2Model ----
(***************************************************************************)
(* vroom-ors-directions: the matrix build of ORSClient (createMatrix,      *)
(* getDirectionEntry, getDirectionsWithRetry, executeWithConcurrency), the *)
(* numeric normalisation of VroomORS.convertMatrixEntriesToMatrices and    *)
(* the registry and the translation of VroomORS.solve (extractLocations,   *)
(* mapLocationToIndex, problemWithMatrix) and its route geometry           *)
(* stitching.                                                              *)
(*                                                                         *)
(* JavaScript runs each piece of synchronous code to completion: an action *)
(* of this module is the code that runs between two suspension points      *)
(* (await of a network response, await of a setTimeout delay).             *)
(***************************************************************************)
EXTENDS Integers, Sequences, FiniteSets, TLC

VARIABLES
    problem,      \* solve: the problem argument
    orsOptions,   \* solve: orsOptions.profile
    locations,    \* solve: locations (getMatrix: its locations argument)
    problemWithMatrix, \* solve: the problem sent to the solver
    error,        \* solve: the error it has thrown
    N,            \* locations.length of the createMatrix call
    pc,           \* position of createMatrix / executeWithConcurrency / solve
    promises,     \* createMatrix: the promises array, one record per (i, j)
    bi,           \* executeWithConcurrency: the loop variable i
    results,      \* executeWithConcurrency: the results array
    odd,          \* number of non-plain responses the upstream may still give
    durations,    \* convertMatrixEntriesToMatrices: durations table
    distances,    \* convertMatrixEntriesToMatrices: distances table
    geometryMap,  \* solve: geometryMap, key <<from, to>>
    steps,        \* solve: route.steps of the solver's route (location_index each)
    routeGeometry \* solve: route.geometry after stitching

\* the variables of solve's registry and translation
solveVars == <<problem, orsOptions, locations, problemWithMatrix, error>>

vars == <<N, pc, promises, bi, results, odd, durations, distances, geometryMap,
          steps, routeGeometry, solveVars>>

(***************************************************************************)
(* Bounds of the model.                                                    *)
(***************************************************************************)
MaxN == 2
MaxOdd == 1
MaxSteps == 4
MaxFields == 3

(***************************************************************************)
(* Program constants.                                                      *)
(***************************************************************************)
Concurrency == 10
MaxRetries == 3
BaseDelay == 2000
SentinelDuration == 999999
SentinelDistance == 999999000

(***************************************************************************)
(* JavaScript numbers.  A finite double is m / Den (fixed point, so that   *)
(* Math.round has halves to round); "huge" is a finite double whose        *)
(* product with 1000 exceeds the largest double (for example 1e306).       *)
(***************************************************************************)
Den == 2 * 1000

Fin(m) == [k |-> "fin", m |-> m]
Whole(n) == Fin(n * Den)
Special(k) == [k |-> k, m |-> 0]
NullNum == Special("null")
UndefNum == Special("undefined")
NaNNum == Special("NaN")
PosInf == Special("Infinity")
NegInf == Special("-Infinity")
HugeNum == Special("huge")

\* x == null
IsNullish(x) == x.k \in {"null", "undefined"}

\* isFinite(x), for x not null: a number that is neither NaN nor +-Infinity
IsFinite(x) == x.k \in {"fin", "huge", "null"}

\* A table cell holds the result of Math.round: an integer, or the infinity or NaN
\* that Math.round leaves unchanged.
IntCell(n) == [k |-> "int", m |-> n]

\* Math.round(x) for a number x: floor(x + 0.5)
MathRound(x) ==
    CASE x.k = "fin" -> IntCell((x.m + (Den \div 2)) \div Den)
      [] x.k = "huge" -> x
      [] OTHER -> x

\* Math.round(x * 1000) in doubles: the product of a huge finite x is Infinity
RoundTimes1000(x) ==
    CASE x.k = "fin" -> IntCell((x.m + 1) \div 2)
      [] x.k = "huge" -> PosInf
      [] OTHER -> x

\* Number.isFinite of a table cell
CellFinite(c) == c.k \in {"int", "huge"}

(***************************************************************************)
(* Strings.  A geometry string is a sequence of character codes; the text  *)
(* of an error message is a sequence of one-character strings.             *)
(***************************************************************************)
\* String.prototype.includes
Includes(text, pat) ==
    \E a \in 0..(Len(text) - Len(pat)) :
        \A b \in 1..Len(pat) : text[a + b] = pat[b]

\* the decimal digits of a non-negative integer, as one-character strings
RECURSIVE Digits(_)
Digits(n) ==
    LET d == <<"0", "1", "2", "3", "4", "5", "6", "7", "8", "9">>[(n % 10) + 1]
    IN  IF n < 10 THEN <<d>> ELSE Digits(n \div 10) \o <<d>>

\* the decimal digits of an integer, as character codes ('0' is 48, '-' is 45)
RECURSIVE DigitCodes(_)
DigitCodes(n) ==
    IF n < 0 THEN <<45>> \o DigitCodes(-n)
    ELSE IF n < 10 THEN <<48 + n>>
    ELSE DigitCodes(n \div 10) \o <<48 + (n % 10)>>

\* JSON.stringify of an array of [a, b] pairs of whole numbers:
\* '[' is 91, ']' is 93, ',' is 44
RECURSIVE JsonPairs(_)
JsonPairs(c) ==
    IF c = <<>> THEN <<>>
    ELSE <<91>> \o DigitCodes(c[1][1]) \o <<44>> \o DigitCodes(c[1][2]) \o <<93>>
         \o (IF Len(c) > 1 THEN <<44>> ELSE <<>>) \o JsonPairs(Tail(c))

JSONStringify(c) == <<91>> \o JsonPairs(c) \o <<93>>

(***************************************************************************)
(* @mapbox/polyline, as called by solve with the default precision 5.  A   *)
(* point is <<lat, lng>> in units of 1e-5 degree, the grid on which decode *)
(* produces its points and on which encode rounds them.                    *)
(***************************************************************************)
Factor == 10^5

\* encode(current, previous, factor): zig-zag, then 5-bit chunks, low chunk first
RECURSIVE EncodeChunks(_)
EncodeChunks(c) ==
    IF c >= 32 THEN <<(32 + (c % 32)) + 63>> \o EncodeChunks(c \div 32)
    ELSE <<c + 63>>

EncodeValue(current, previous) ==
    LET d == (current - previous) * 2
    IN  EncodeChunks(IF d < 0 THEN (-d) - 1 ELSE d)

RECURSIVE EncodeFrom(_, _)
EncodeFrom(coordinates, previous) ==
    IF coordinates = <<>> THEN <<>>
    ELSE EncodeValue(coordinates[1][1], previous[1])
         \o EncodeValue(coordinates[1][2], previous[2])
         \o EncodeFrom(Tail(coordinates), coordinates[1])

\* polyline.encode(coordinates)
PolylineEncode(coordinates) == EncodeFrom(coordinates, <<0, 0>>)

\* one value of decode: the do-while over 5-bit chunks starting at index (1-based);
\* charCodeAt past the end is NaN, which adds nothing and ends the loop
RECURSIVE DecodeChunks(_, _, _, _)
DecodeChunks(str, index, shift, result) ==
    IF index > Len(str) THEN [result |-> result, index |-> index + 1]
    ELSE LET byte == str[index] - 63
             r == result + (byte % 32) * shift
         IN  IF byte >= 32 THEN DecodeChunks(str, index + 1, shift * 32, r)
             ELSE [result |-> r, index |-> index + 1]

DecodeValue(str, index) ==
    LET v == DecodeChunks(str, index, 1, 0)
    IN  [change |-> IF v.result % 2 = 1 THEN -((v.result + 1) \div 2)
                    ELSE v.result \div 2,
         index |-> v.index]

RECURSIVE DecodeFrom(_, _, _, _)
DecodeFrom(str, index, lat, lng) ==
    IF index > Len(str) THEN <<>>
    ELSE LET a == DecodeValue(str, index)
             b == DecodeValue(str, a.index)
         IN  <<<<lat + a.change, lng + b.change>>>>
             \o DecodeFrom(str, b.index, lat + a.change, lng + b.change)

\* polyline.decode(str) of a string
PolylineDecode(str) == DecodeFrom(str, 1, 0, 0)

(***************************************************************************)
(* The directions service.  A response is a transport failure (fetch       *)
(* rejects, or the body is not JSON), a non-2xx response with a status and *)
(* a body text, or a 2xx response whose body has routes.length = routes;   *)
(* its first route has a summary (or none) and a geometry of any shape.    *)
(***************************************************************************)
GeomAbsent == [t |-> "absent", s |-> <<>>, c |-> <<>>]
GeomString(str) == [t |-> "string", s |-> str, c |-> <<>>]
GeomCoordinates(coords) == [t |-> "coordinates", s |-> <<>>, c |-> coords]
GeomPolyline(str) == [t |-> "polyline", s |-> str, c |-> <<>>]
GeomPolylineArray(arr) == [t |-> "polylineArray", s |-> arr, c |-> <<>>]
GeomOther == [t |-> "other", s |-> <<>>, c |-> <<>>]

OkRoute(duration, distance, geometry) ==
    [kind |-> "ok", status |-> 200, text |-> <<>>, routes |-> 1, summary |-> TRUE,
     duration |-> duration, distance |-> distance, geometry |-> geometry]
NoRoutes == [OkRoute(NullNum, NullNum, GeomAbsent) EXCEPT !.routes = 0]
NoSummary == [OkRoute(UndefNum, UndefNum, GeomAbsent) EXCEPT !.summary = FALSE]
Http(status, text) ==
    [OkRoute(NullNum, NullNum, GeomAbsent) EXCEPT
        !.kind = "http", !.status = status, !.text = text, !.routes = 0]
Transport(text) ==
    [OkRoute(NullNum, NullNum, GeomAbsent) EXCEPT
        !.kind = "transport", !.status = 0, !.text = text, !.routes = 0]

\* location k of the model lies at (k, k) degrees
Pt(k) == <<k * Factor, k * Factor>>

\* the road from location i to location j, as the service encodes it
PlainGeometry(i, j) == PolylineEncode(<<Pt(i), Pt(j)>>)

\* the ordinary answer for the leg (i, j): (10(i+1) + j + 0.5) seconds,
\* (i + 1 + j/4 + 0.0005) km, the road as an encoded string
PlainDuration(i, j) == Fin((10 * (i + 1) + j) * Den + (Den \div 2))
PlainDistance(i, j) == Fin((i + 1) * Den + j * (Den \div 4) + 1)
Plain(i, j) ==
    OkRoute(PlainDuration(i, j), PlainDistance(i, j), GeomString(PlainGeometry(i, j)))

TextPlain == <<"b", "a", "d">>
Text429 == <<"i", "d", " ", "1", "4", "2", "9", "5">>
TextRateLimit == <<"R", "a", "t", "e", " ", "L", "i", "m", "i", "t">>
TextFetchFailed == <<"f", "e", "t", "c", "h", " ", "f", "a", "i", "l", "e", "d">>

\* the other answers the service can give for the leg (i, j)
OddResponses(i, j) ==
    {NoRoutes, NoSummary,
     Http(429, TextPlain), Http(500, TextPlain), Http(500, Text429),
     Http(503, TextRateLimit), Transport(TextFetchFailed)}
    \cup {OkRoute(d, PlainDistance(i, j), GeomString(PlainGeometry(i, j))) :
            d \in {NullNum, UndefNum, NaNNum, PosInf}}
    \cup {OkRoute(PlainDuration(i, j), d, GeomString(PlainGeometry(i, j))) :
            d \in {NullNum, PosInf, HugeNum}}
    \cup {OkRoute(PlainDuration(i, j), PlainDistance(i, j), g) :
            g \in {GeomAbsent, GeomOther, GeomString(<<>>),
                   GeomCoordinates(<<<<i, i>>, <<j, j>>>>),
                   GeomPolyline(PlainGeometry(i, j)),
                   GeomPolylineArray(PlainGeometry(i, j))}}

(***************************************************************************)
(* ORSClient.getDirections: the outcome of one request.                    *)
(***************************************************************************)
ErrorPrefix ==
    <<"O", "R", "S", " ", "A", "P", "I", " ", "e", "r", "r", "o", "r", ":", " ">>

\* [thrown, message]: fetch rejects, or !response.ok throws
\* `ORS API error: ${response.status} - ${errorText}`
GetDirections(r) ==
    CASE r.kind = "transport" -> [thrown |-> TRUE, message |-> r.text]
      [] r.kind = "http" ->
            [thrown |-> TRUE,
             message |-> ErrorPrefix \o Digits(r.status) \o <<" ", "-", " ">> \o r.text]
      [] OTHER -> [thrown |-> FALSE, message |-> <<>>]

(***************************************************************************)
(* ORSClient.getDirectionsWithRetry: the catch clause of one attempt.      *)
(***************************************************************************)
\* error.message?.includes('429') || error.message?.includes('Rate Limit')
IsRateLimit(message) ==
    Includes(message, <<"4", "2", "9">>) \/ Includes(message, TextRateLimit)

\* a backoff that grows by the base delay instead of doubling
BackoffDelayLinear(attempt) == (attempt + 1) * BaseDelay

\* Math.pow(2, attempt) * 2000
BackoffDelay(attempt) == (2 ^ attempt) * BaseDelay

\* does the catch clause delay and continue (TRUE), or throw the error (FALSE)
Retries(message, attempt) == IsRateLimit(message) /\ attempt < MaxRetries

(***************************************************************************)
(* ORSClient.getDirectionEntry.                                            *)
(***************************************************************************)
GeomUndefined == [t |-> "undefined", s |-> <<>>]

\* the polyline variable: the MatrixEntry's geometry for a route.geometry
ExtractPolyline(g) ==
    CASE g.t = "string" /\ g.s # <<>> -> [t |-> "string", s |-> g.s]
      [] g.t = "coordinates" -> [t |-> "string", s |-> JSONStringify(g.c)]
      [] g.t = "polyline" /\ g.s # <<>> -> [t |-> "string", s |-> g.s]
      [] g.t = "polylineArray" -> [t |-> "array", s |-> g.s]
      [] OTHER -> GeomUndefined

MatrixEntry(from, to, distance, duration, geometry) ==
    [from |-> from, to |-> to, distance |-> distance, duration |-> duration,
     geometry |-> geometry]

\* the entry of the else branch and of the catch clause
UnreachableValue == 999999

\* a failed leg taken for a leg of no cost
UnreachableEntryZero(from, to) ==
    [from |-> from, to |-> to, distance |-> Whole(0), duration |-> Whole(0),
     geometry |-> GeomUndefined]

UnreachableEntry(from, to) ==
    MatrixEntry(from, to, Whole(UnreachableValue), Whole(UnreachableValue),
                GeomUndefined)

\* a response without routes taken for a route without a summary: null values
EntryOfDirectionsNull(r, from, to) ==
    IF r.routes > 0 /\ r.summary
    THEN MatrixEntry(from, to, r.distance, r.duration, ExtractPolyline(r.geometry))
    ELSE MatrixEntry(from, to, NullNum, NullNum, GeomUndefined)

\* the entry for a response that getDirectionsWithRetry returned
EntryOfDirections(r, from, to) ==
    IF r.routes > 0
    THEN IF r.summary
         THEN MatrixEntry(from, to, r.distance, r.duration, ExtractPolyline(r.geometry))
         ELSE UnreachableEntry(from, to)    \* TypeError on route.summary, caught
    ELSE UnreachableEntry(from, to)

(***************************************************************************)
(* ORSClient.createMatrix and executeWithConcurrency.                      *)
(***************************************************************************)
NoEntry == MatrixEntry(-1, -1, NullNum, NullNum, GeomUndefined)

\* no response handled yet
NoAnswer == [OkRoute(NullNum, NullNum, GeomAbsent) EXCEPT !.kind = "none", !.routes = 0]

\* A promise of the array: the leg it is for, where its code stands (st), the
\* retry loop's attempt, the entry it resolved to, and what happened to it so far:
\* requests sent, delays taken (waits), responses handled (answered), how many of
\* them made getDirections throw (failed) and had status 429 (limited), the last
\* response (answer), and whether getDirectionsWithRetry threw (thrown).

\* Promise.resolve({from: i, to: j, distance: 0, duration: 0, geometry: undefined})
DiagonalPromise(i) ==
    [from |-> i, to |-> i, st |-> "settled", attempt |-> 0, requests |-> 0,
     waits |-> <<>>, answered |-> 0, failed |-> 0, limited |-> 0,
     answer |-> NoAnswer, thrown |-> FALSE,
     entry |-> MatrixEntry(i, i, Whole(0), Whole(0), GeomUndefined)]

\* this.getDirectionEntry(...): runs to the first await, the fetch of attempt 0
LegPromise(i, j) ==
    [from |-> i, to |-> j, st |-> "inflight", attempt |-> 0, requests |-> 1,
     waits |-> <<>>, answered |-> 0, failed |-> 0, limited |-> 0,
     answer |-> NoAnswer, thrown |-> FALSE, entry |-> NoEntry]

\* a loop body without the i === j branch: every pair asks the service
NewPromiseNoShortCut(i, j) == LegPromise(i, j)

NewPromise(i, j) == IF i = j THEN DiagonalPromise(i) ELSE LegPromise(i, j)

\* an inner loop that starts at i instead of 0: the pairs below the diagonal are
\* taken again from above it
AllPromisesUpper(n) ==
    [p \in 1..(n * n) |->
        LET i == (p - 1) \div n
            j == (p - 1) % n
        IN  IF j < i THEN NewPromise(j, i) ELSE NewPromise(i, j)]

\* the promises array after the two loops: position i * n + j + 1 holds (i, j)
AllPromises(n) ==
    [p \in 1..(n * n) |-> NewPromise((p - 1) \div n, (p - 1) % n)]

\* createMatrix up to its await: every getDirectionEntry call has sent its request
CreateMatrix ==
    /\ pc = "start"
    /\ promises' = AllPromises(N)
    /\ bi' = 0
    /\ results' = <<>>
    /\ pc' = IF N * N > 0 THEN "batch" ELSE "returned"
    /\ UNCHANGED <<N, odd, durations, distances, geometryMap, steps, routeGeometry,
                   solveVars>>

\* what happened to the promise q, with the response r added
Noted(q, r) ==
    [q EXCEPT !.answered = @ + 1,
              !.failed = IF GetDirections(r).thrown THEN @ + 1 ELSE @,
              !.limited = IF r.kind = "http" /\ r.status = 429 THEN @ + 1 ELSE @,
              !.answer = r]

\* a getDirectionEntry without its catch clause: the error of the retry loop
\* rejects the promise, and Promise.all rejects with it
AfterResponseRethrow(q, r) ==
    LET got == GetDirections(r)
        h == Noted(q, r)
    IN  IF got.thrown
        THEN IF Retries(got.message, q.attempt)
             THEN [h EXCEPT !.st = "backoff",
                            !.waits = Append(q.waits, BackoffDelay(q.attempt))]
             ELSE [h EXCEPT !.st = "rejected", !.thrown = TRUE]
        ELSE [h EXCEPT !.st = "settled", !.entry = EntryOfDirections(r, q.from, q.to)]

\* the promise q after the response r to its request
AfterResponse(q, r) ==
    LET got == GetDirections(r)
        h == Noted(q, r)
    IN  IF got.thrown
        THEN IF Retries(got.message, q.attempt)
             THEN [h EXCEPT !.st = "backoff",
                            !.waits = Append(q.waits, BackoffDelay(q.attempt))]
             ELSE [h EXCEPT !.st = "settled", !.thrown = TRUE,
                            !.entry = UnreachableEntry(q.from, q.to)]
        ELSE [h EXCEPT !.st = "settled", !.entry = EntryOfDirections(r, q.from, q.to)]

\* a request of leg p is answered: getDirections, the retry loop's try/catch and
\* getDirectionEntry run on to the next await or to the entry
Respond(p) ==
    /\ pc \in {"batch", "pause"}
    /\ p \in DOMAIN promises
    /\ promises[p].st = "inflight"
    /\ \E r \in {Plain(promises[p].from, promises[p].to)}
                \cup (IF odd > 0 THEN OddResponses(promises[p].from, promises[p].to)
                      ELSE {}) :
          /\ promises' = [promises EXCEPT ![p] = AfterResponse(promises[p], r)]
          /\ odd' = IF r = Plain(promises[p].from, promises[p].to) THEN odd ELSE odd - 1
    /\ UNCHANGED <<N, pc, bi, results, durations, distances, geometryMap, steps,
                   routeGeometry, solveVars>>

\* the backoff delay of leg p ends: continue, the next attempt sends its request
BackoffElapsed(p) ==
    /\ pc \in {"batch", "pause"}
    /\ p \in DOMAIN promises
    /\ promises[p].st = "backoff"
    /\ promises' = [promises EXCEPT ![p] =
                        [@ EXCEPT !.st = "inflight", !.attempt = @ + 1,
                                  !.requests = @ + 1]]
    /\ UNCHANGED <<N, pc, bi, results, odd, durations, distances, geometryMap, steps,
                   routeGeometry, solveVars>>

\* promises.slice(i, i + concurrency), as positions
Batch(i) == {p \in DOMAIN promises : i < p /\ p <= i + Concurrency}

RECURSIVE EntriesOf(_, _)
EntriesOf(from, to) ==
    IF from > to THEN <<>> ELSE <<promises[from].entry>> \o EntriesOf(from + 1, to)

\* await Promise.all(batch) resumes; results.push; then the pause or the return
BatchSettled ==
    /\ pc = "batch"
    /\ \A p \in Batch(bi) : promises[p].st = "settled"
    /\ results' = results \o EntriesOf(bi + 1, bi + Cardinality(Batch(bi)))
    /\ IF bi + Concurrency < Len(promises)
       THEN pc' = "pause" /\ bi' = bi
       ELSE pc' = "returned" /\ bi' = bi + Concurrency
    /\ UNCHANGED <<N, promises, odd, durations, distances, geometryMap, steps,
                   routeGeometry, solveVars>>

\* await this.delay(100) resumes; i += concurrency; the next slice is awaited
PauseElapsed ==
    /\ pc = "pause"
    /\ bi' = bi + Concurrency
    /\ pc' = "batch"
    /\ UNCHANGED <<N, promises, results, odd, durations, distances, geometryMap, steps,
                   routeGeometry, solveVars>>

(***************************************************************************)
(* VroomORS.convertMatrixEntriesToMatrices and the geometryMap of solve.   *)
(***************************************************************************)
\* rounding before the substitution: Math.round(null) is 0, a finite number
ConvertDurationRoundFirst(entry) ==
    IF entry.duration.k = "null" THEN IntCell(0)
    ELSE IF ~IsFinite(entry.duration) \/ IsNullish(entry.duration)
         THEN IntCell(SentinelDuration)
         ELSE MathRound(entry.duration)

ConvertDuration(entry) ==
    IF IsNullish(entry.duration) \/ ~IsFinite(entry.duration)
    THEN IntCell(SentinelDuration)
    ELSE MathRound(entry.duration)

ConvertDistance(entry) ==
    IF IsNullish(entry.distance) \/ ~IsFinite(entry.distance)
    THEN IntCell(SentinelDistance)
    ELSE RoundTimes1000(entry.distance)

\* Array(size).fill(null).map(() => Array(size).fill(0))
ZeroTable(size) == [c \in (0..(size - 1)) \X (0..(size - 1)) |-> IntCell(0)]

\* a loop that writes the k-th entry to the k-th cell, row by row, instead of to
\* the cell the entry names
RECURSIVE FillTablesByPosition(_, _)
FillTablesByPosition(tables, entries) ==
    IF entries = <<>> THEN tables
    ELSE LET e == entries[1]
             cells == Cardinality(DOMAIN tables.durations)
             size == CHOOSE n \in 0..cells : n * n = cells
             k == (cells - Len(entries)) % (IF cells = 0 THEN 1 ELSE cells)
             c == IF size = 0 THEN <<e.from, e.to>> ELSE <<k \div size, k % size>>
         IN  FillTablesByPosition(
                 [durations |-> [tables.durations EXCEPT ![c] = ConvertDuration(e)],
                  distances |-> [tables.distances EXCEPT ![c] = ConvertDistance(e)]],
                 Tail(entries))

\* the for loop over entries, writing durations[entry.from][entry.to] and
\* distances[entry.from][entry.to]
RECURSIVE FillTables(_, _)
FillTables(tables, entries) ==
    IF entries = <<>> THEN tables
    ELSE LET e == entries[1]
         IN  FillTables(
                 [durations |-> [tables.durations EXCEPT
                                    ![<<e.from, e.to>>] = ConvertDuration(e)],
                  distances |-> [tables.distances EXCEPT
                                    ![<<e.from, e.to>>] = ConvertDistance(e)]],
                 Tail(entries))

ConvertMatrixEntriesToMatrices(entries, size) ==
    FillTables([durations |-> ZeroTable(size), distances |-> ZeroTable(size)], entries)

\* if (entry.geometry): a non-empty string or an object
Truthy(g) == g.t = "array" \/ (g.t = "string" /\ g.s # <<>>)

\* geometryMap.set(`${entry.from}-${entry.to}`, entry.geometry), in entry order
RECURSIVE FillGeometryMap(_, _)
FillGeometryMap(map, entries) ==
    IF entries = <<>> THEN map
    ELSE LET e == entries[1]
             k == <<e.from, e.to>>
         IN  FillGeometryMap(
                 IF Truthy(e.geometry)
                 THEN [x \in DOMAIN map \cup {k} |-> IF x = k THEN e.geometry ELSE map[x]]
                 ELSE map,
                 Tail(entries))

EmptyMap == [x \in {} |-> GeomUndefined]

\* solve lines 29-37 (getMatrix: line 313): the tables and the geometry map
Convert ==
    /\ pc = "returned"
    /\ durations' = ConvertMatrixEntriesToMatrices(results, N).durations
    /\ distances' = ConvertMatrixEntriesToMatrices(results, N).distances
    /\ geometryMap' = FillGeometryMap(EmptyMap, results)
    /\ pc' = "converted"
    /\ UNCHANGED <<N, promises, bi, results, odd, steps, routeGeometry,
                   solveVars>>

(***************************************************************************)
(* VroomORS.extractLocations and mapLocationToIndex.  A coordinate is the  *)
(* array [lng, lat] of two JavaScript numbers; NoCoord is an absent one,   *)
(* NoIndex an absent index.                                                *)
(***************************************************************************)
NoCoord == <<>>
NoIndex == -1

\* `${v}` for a number v: the digits of a whole number, the name of NaN
NumberText(v) == IF v.k = "fin" THEN Digits(v.m \div Den) ELSE <<v.k>>

\* `${location[0]},${location[1]}`
LocationKey(location) ==
    NumberText(location[1]) \o <<",">> \o NumberText(location[2])

\* a === b for two numbers: NaN equals nothing
StrictEquals(a, b) == a.k # "NaN" /\ b.k # "NaN" /\ a = b

\* locations and locationSet before the loops
EmptyRegistry == [locations |-> <<>>, locationSet |-> {}]

\* a loop body that pushes every location it sees
RegisterEvery(registry, location) ==
    IF location # NoCoord
    THEN [locations |-> Append(registry.locations, location),
          locationSet |-> registry.locationSet \cup {LocationKey(location)}]
    ELSE registry

\* if (location) { if (!locationSet.has(key)) { locations.push(location);
\* locationSet.add(key) } }
Register(registry, location) ==
    IF location # NoCoord /\ LocationKey(location) \notin registry.locationSet
    THEN [locations |-> Append(registry.locations, location),
          locationSet |-> registry.locationSet \cup {LocationKey(location)}]
    ELSE registry

RECURSIVE RegisterAll(_, _)
RegisterAll(registry, slots) ==
    IF slots = <<>> THEN registry
    ELSE RegisterAll(Register(registry, slots[1]), Tail(slots))

\* the locations the loops look at, in their order: job.location of every job,
\* pickup?.location and delivery?.location of every shipment, start and end of
\* every vehicle
JobLocations(jobs) == [k \in 1..Len(jobs) |-> jobs[k].location]

RECURSIVE ShipmentLocations(_)
ShipmentLocations(shipments) ==
    IF shipments = <<>> THEN <<>>
    ELSE <<shipments[1].pickup.location, shipments[1].delivery.location>>
         \o ShipmentLocations(Tail(shipments))

RECURSIVE VehicleLocations(_)
VehicleLocations(vehicles) ==
    IF vehicles = <<>> THEN <<>>
    ELSE <<vehicles[1].start, vehicles[1].end>> \o VehicleLocations(Tail(vehicles))

ExtractLocations(p) ==
    RegisterAll(
        RegisterAll(RegisterAll(EmptyRegistry, JobLocations(p.jobs)),
                    ShipmentLocations(p.shipments)),
        VehicleLocations(p.vehicles)).locations

\* mapLocationToIndex: the first i with locations[i] === location in both
\* components, or the throw of the location-not-found error
MapLocationToIndex(location, locs) ==
    LET hits == {i \in 1..Len(locs) :
                    /\ StrictEquals(locs[i][1], location[1])
                    /\ StrictEquals(locs[i][2], location[2])}
    IN  IF hits = {} THEN [thrown |-> TRUE, index |-> NoIndex]
        ELSE [thrown |-> FALSE,
              index |-> (CHOOSE i \in hits : \A h \in hits : i <= h) - 1]

(***************************************************************************)
(* VroomORS.solve, lines 39-90: problemWithMatrix.  A job is [id,          *)
(* location, location_index]; a shipment has a pickup and a delivery, each *)
(* absent or [location, location_index]; a vehicle is [id, start, end,     *)
(* start_index, end_index, profile]; a problem without shipments has the   *)
(* empty list.  NoProfile is an absent or empty profile (both falsy).      *)
(***************************************************************************)
NoProfile == ""
DefaultProfile == "driving-car"

Job(id, location) == [id |-> id, location |-> location, location_index |-> NoIndex]
Task(location, index) ==
    [present |-> TRUE, location |-> location, location_index |-> index]
NoTask == [present |-> FALSE, location |-> NoCoord, location_index |-> NoIndex]
Shipment(id, pickup, delivery) == [id |-> id, pickup |-> pickup, delivery |-> delivery]
Vehicle(id, start, end, startIndex, endIndex, profile) ==
    [id |-> id, start |-> start, end |-> end, start_index |-> startIndex,
     end_index |-> endIndex, profile |-> profile]

\* the matrices of a problem: a table pair under each key
NoMatrices == [k \in {} |-> [durations |-> ZeroTable(0), distances |-> ZeroTable(0)]]
MatricesUnder(key, durs, dists) ==
    [k \in {key} |-> [durations |-> durs, distances |-> dists]]

NoProblem ==
    [jobs |-> <<>>, shipments |-> <<>>, vehicles |-> <<>>, matrices |-> NoMatrices]

\* the errors of solve's translation
NoError == [type |-> "none", id |-> 0, location |-> NoCoord]
\* new Error(`Job ${job.id} must have a location when using matrix-based routing`)
MissingLocation(id) == [type |-> "missingLocation", id |-> id, location |-> NoCoord]
\* new Error(`Location [${location[0]}, ${location[1]}] not found in locations array`)
LocationNotFound(location) ==
    [type |-> "locationNotFound", id |-> 0, location |-> location]

\* orsOptions.profile || 'driving-car'
Profile(orsProfile) == IF orsProfile # NoProfile THEN orsProfile ELSE DefaultProfile

\* a callback that keeps the location next to the index
TranslateJobKeepLocation(job, locs) ==
    IF job.location = NoCoord
    THEN [error |-> MissingLocation(job.id), value |-> job]
    ELSE LET found == MapLocationToIndex(job.location, locs)
         IN  IF found.thrown
             THEN [error |-> LocationNotFound(job.location), value |-> job]
             ELSE [error |-> NoError,
                   value |-> [job EXCEPT !.location_index = found.index]]

\* the callback of problem.jobs.map: the job without its location, with its index
TranslateJob(job, locs) ==
    IF job.location = NoCoord
    THEN [error |-> MissingLocation(job.id), value |-> job]
    ELSE LET found == MapLocationToIndex(job.location, locs)
         IN  IF found.thrown
             THEN [error |-> LocationNotFound(job.location), value |-> job]
             ELSE [error |-> NoError,
                   value |-> [job EXCEPT !.location = NoCoord,
                                         !.location_index = found.index]]

\* problem.jobs.map(...): the first throw ends it
RECURSIVE TranslateJobs(_, _)
TranslateJobs(jobs, locs) ==
    IF jobs = <<>> THEN [error |-> NoError, value |-> <<>>]
    ELSE LET first == TranslateJob(jobs[1], locs)
             rest == TranslateJobs(Tail(jobs), locs)
         IN  IF first.error # NoError THEN [error |-> first.error, value |-> <<>>]
             ELSE IF rest.error # NoError THEN rest
             ELSE [error |-> NoError, value |-> <<first.value>> \o rest.value]

\* if (shipment.pickup?.location) { ... }, and the same for the delivery
TranslateTask(task, locs) ==
    IF task.present /\ task.location # NoCoord
    THEN LET found == MapLocationToIndex(task.location, locs)
         IN  IF found.thrown
             THEN [error |-> LocationNotFound(task.location), value |-> task]
             ELSE [error |-> NoError,
                   value |-> [task EXCEPT !.location = NoCoord,
                                          !.location_index = found.index]]
    ELSE [error |-> NoError, value |-> task]

\* the callback of problem.shipments?.map: the pickup, then the delivery
TranslateShipment(shipment, locs) ==
    LET pickup == TranslateTask(shipment.pickup, locs)
        delivery == TranslateTask(shipment.delivery, locs)
    IN  IF pickup.error # NoError THEN [error |-> pickup.error, value |-> shipment]
        ELSE IF delivery.error # NoError
             THEN [error |-> delivery.error, value |-> shipment]
             ELSE [error |-> NoError,
                   value |-> [shipment EXCEPT !.pickup = pickup.value,
                                              !.delivery = delivery.value]]

RECURSIVE TranslateShipments(_, _)
TranslateShipments(shipments, locs) ==
    IF shipments = <<>> THEN [error |-> NoError, value |-> <<>>]
    ELSE LET first == TranslateShipment(shipments[1], locs)
             rest == TranslateShipments(Tail(shipments), locs)
         IN  IF first.error # NoError THEN [error |-> first.error, value |-> <<>>]
             ELSE IF rest.error # NoError THEN rest
             ELSE [error |-> NoError, value |-> <<first.value>> \o rest.value]

\* a callback that gives every vehicle the operation-wide profile
TranslateVehicleOneProfile(vehicle, profile, locs) ==
    LET start == IF vehicle.start # NoCoord
                 THEN MapLocationToIndex(vehicle.start, locs)
                 ELSE [thrown |-> FALSE, index |-> NoIndex]
        end == IF vehicle.end # NoCoord
               THEN MapLocationToIndex(vehicle.end, locs)
               ELSE [thrown |-> FALSE, index |-> NoIndex]
    IN  IF start.thrown
        THEN [error |-> LocationNotFound(vehicle.start), value |-> vehicle]
        ELSE IF end.thrown
             THEN [error |-> LocationNotFound(vehicle.end), value |-> vehicle]
             ELSE [error |-> NoError,
                   value |-> Vehicle(vehicle.id, NoCoord, NoCoord, start.index,
                                     end.index, profile)]

\* the callback of problem.vehicles.map: start and end are taken out, profile is
\* vehicle.profile || profile, start_index and end_index are the index of the
\* location or undefined
TranslateVehicle(vehicle, profile, locs) ==
    LET start == IF vehicle.start # NoCoord
                 THEN MapLocationToIndex(vehicle.start, locs)
                 ELSE [thrown |-> FALSE, index |-> NoIndex]
        end == IF vehicle.end # NoCoord
               THEN MapLocationToIndex(vehicle.end, locs)
               ELSE [thrown |-> FALSE, index |-> NoIndex]
    IN  IF start.thrown
        THEN [error |-> LocationNotFound(vehicle.start), value |-> vehicle]
        ELSE IF end.thrown
             THEN [error |-> LocationNotFound(vehicle.end), value |-> vehicle]
             ELSE [error |-> NoError,
                   value |-> Vehicle(vehicle.id, NoCoord, NoCoord, start.index,
                                     end.index,
                                     IF vehicle.profile # NoProfile
                                     THEN vehicle.profile ELSE profile)]

RECURSIVE TranslateVehicles(_, _, _)
TranslateVehicles(vehicles, profile, locs) ==
    IF vehicles = <<>> THEN [error |-> NoError, value |-> <<>>]
    ELSE LET first == TranslateVehicle(vehicles[1], profile, locs)
             rest == TranslateVehicles(Tail(vehicles), profile, locs)
         IN  IF first.error # NoError THEN [error |-> first.error, value |-> <<>>]
             ELSE IF rest.error # NoError THEN rest
             ELSE [error |-> NoError, value |-> <<first.value>> \o rest.value]

\* the object literal of lines 42-90, its properties evaluated in order: jobs,
\* shipments, vehicles, matrices (which replaces problem.matrices)
ProblemWithMatrix(p, orsProfile, locs, durs, dists) ==
    LET profile == Profile(orsProfile)
        jobs == TranslateJobs(p.jobs, locs)
        shipments == TranslateShipments(p.shipments, locs)
        vehicles == TranslateVehicles(p.vehicles, profile, locs)
    IN  IF jobs.error # NoError THEN [error |-> jobs.error, value |-> NoProblem]
        ELSE IF shipments.error # NoError
             THEN [error |-> shipments.error, value |-> NoProblem]
        ELSE IF vehicles.error # NoError
             THEN [error |-> vehicles.error, value |-> NoProblem]
        ELSE [error |-> NoError,
              value |-> [jobs |-> jobs.value, shipments |-> shipments.value,
                         vehicles |-> vehicles.value,
                         matrices |-> MatricesUnder(profile, durs, dists)]]

\* solve up to the createMatrix call: the registry of the problem's locations
Solve ==
    /\ pc = "solve"
    /\ locations' = ExtractLocations(problem)
    /\ N' = Len(ExtractLocations(problem))
    /\ pc' = "start"
    /\ UNCHANGED <<promises, bi, results, odd, durations, distances, geometryMap,
                   steps, routeGeometry, problem, orsOptions, problemWithMatrix,
                   error>>

\* solve after the matrix: the translation; it throws, or the fetch sends
\* problemWithMatrix to the solver
Translate ==
    /\ pc = "converted"
    /\ LET t == ProblemWithMatrix(problem, orsOptions, locations, durations,
                                  distances)
       IN  IF t.error = NoError
           THEN /\ problemWithMatrix' = t.value
                /\ error' = NoError
                /\ pc' = "submitted"
           ELSE /\ problemWithMatrix' = problemWithMatrix
                /\ error' = t.error
                /\ pc' = "failed"
    /\ UNCHANGED <<N, promises, bi, results, odd, durations, distances, geometryMap,
                   steps, routeGeometry, problem, orsOptions, locations>>

(***************************************************************************)
(* The matrix build for up to MaxN locations, with up to MaxOdd answers    *)
(* of the service that are not the ordinary one.                           *)
(***************************************************************************)
NoGeometry == [t |-> "undefined", s |-> <<>>]

InitCommon ==
    /\ pc = "start"
    /\ promises = <<>>
    /\ bi = 0
    /\ results = <<>>
    /\ durations = ZeroTable(0)
    /\ distances = ZeroTable(0)
    /\ geometryMap = EmptyMap
    /\ steps = <<>>
    /\ routeGeometry = NoGeometry

\* the smallest matrix with more than k requests to send
SmallestWithLegs(k) ==
    CHOOSE n \in 1..(k + 2) :
        /\ n * (n - 1) > k
        /\ \A m \in 1..(n - 1) : m * (m - 1) <= k

\* small matrices, a few answers that are not the ordinary one
InitSmall == N \in 0..MaxN /\ odd \in 0..MaxOdd

\* the smallest matrix whose requests do not fit one window; ordinary answers
InitWindows == N = SmallestWithLegs(Concurrency) /\ odd = 0

\* the smallest matrix with a request; enough failures to exhaust the retries
InitRetry == N = SmallestWithLegs(0) /\ odd = MaxRetries + 1 + MaxOdd

\* getMatrix(locations): location k of the list lies at (k, k); there is no problem
PlainLocations(n) == [k \in 1..n |-> <<Whole(k - 1), Whole(k - 1)>>]

Init ==
    /\ InitSmall \/ InitWindows \/ InitRetry
    /\ InitCommon
    /\ locations = PlainLocations(N)
    /\ problem = NoProblem
    /\ orsOptions = NoProfile
    /\ problemWithMatrix = NoProblem
    /\ error = NoError

Next ==
    \/ CreateMatrix
    \/ \E p \in 1..(N * N) : Respond(p)
    \/ \E p \in 1..(N * N) : BackoffElapsed(p)
    \/ BatchSettled
    \/ PauseElapsed
    \/ Convert

Spec == Init /\ [][Next]_vars

(***************************************************************************)
(* VroomORS.solve, lines 110-178: the geometry of one route of the         *)
(* solution.  A step is its location_index, NoIndex when it has none.      *)
(***************************************************************************)

\* the for loop over consecutive steps from step i on: the geometries found
RECURSIVE RouteGeometries(_, _, _)
RouteGeometries(map, route, i) ==
    IF i + 1 > Len(route) THEN <<>>
    ELSE LET fromIndex == route[i]
             toIndex == route[i + 1]
             found == /\ fromIndex # NoIndex /\ toIndex # NoIndex
                      /\ <<fromIndex, toIndex>> \in DOMAIN map
         IN  (IF found THEN <<map[<<fromIndex, toIndex>>]>> ELSE <<>>)
             \o RouteGeometries(map, route, i + 1)

\* geom && geom.length > 0, for a geometry of the map
HasLength(g) == Len(g.s) > 0

\* polyline.decode(geom) throws on a value that is not a string
DecodeThrows(g) == g.t # "string"

\* the loop that combines the decoded segments, every segment kept whole
RECURSIVE CombineKeepAll(_, _)
CombineKeepAll(segments, i) ==
    IF i > Len(segments) THEN <<>>
    ELSE segments[i] \o CombineKeepAll(segments, i + 1)

\* the loop that combines the decoded segments from segment i on: the first whole,
\* the later ones without their first point (segment.slice(1))
RECURSIVE Combine(_, _)
Combine(segments, i) ==
    IF i > Len(segments) THEN <<>>
    ELSE (IF i = 1 THEN segments[i] ELSE Tail(segments[i]))
         \o Combine(segments, i + 1)

\* a catch clause that leaves the route as it is
FallbackNone(routeGeometries, old) == old

\* the catch clause: routeGeometries.find(g => g && g.length > 0)
Fallback(routeGeometries, old) ==
    LET valid == SelectSeq(routeGeometries, HasLength)
    IN  IF valid # <<>> THEN valid[1] ELSE old

\* the try block: decode every geometry that has a length, combine, encode
Stitched(routeGeometries, old) ==
    LET toDecode == SelectSeq(routeGeometries, HasLength)
    IN  IF \E k \in 1..Len(toDecode) : DecodeThrows(toDecode[k])
        THEN Fallback(routeGeometries, old)
        ELSE IF toDecode # <<>>
             THEN [t |-> "string",
                   s |-> PolylineEncode(
                            Combine([k \in 1..Len(toDecode) |->
                                        PolylineDecode(toDecode[k].s)], 1))]
             ELSE old

\* a stitcher without the routeGeometries.length > 0 guard: it encodes what it has
RouteGeometryUnguarded(map, route, old) ==
    LET g == IF Len(route) > 1 THEN RouteGeometries(map, route, 1) ELSE <<>>
    IN  IF g = <<>> THEN [t |-> "string", s |-> PolylineEncode(<<>>)]
        ELSE Stitched(g, old)

\* route.geometry after the body of the loop over solution.routes
RouteGeometry(map, route, old) ==
    IF Len(route) > 1
    THEN LET routeGeometries == RouteGeometries(map, route, 1)
         IN  IF Len(routeGeometries) > 0 THEN Stitched(routeGeometries, old) ELSE old
    ELSE old

\* the routes the solver can answer with: up to MaxSteps steps, each with the index
\* of a location or with none
RECURSIVE Routes(_, _)
Routes(n, len) ==
    IF len = 0 THEN {<<>>}
    ELSE Routes(n, len - 1)
         \cup {Append(r, x) : r \in {q \in Routes(n, len - 1) : Len(q) = len - 1},
                              x \in {NoIndex} \cup (0..(n - 1))}

\* the solver's response arrives: solution.routes has a route with these steps
SolverResponds ==
    /\ pc = "submitted"
    /\ \E route \in Routes(N, MaxSteps) : steps' = route
    /\ pc' = "solved"
    /\ UNCHANGED <<N, promises, bi, results, odd, durations, distances, geometryMap,
                   routeGeometry, solveVars>>

\* solve adds the geometry to the route
Stitch ==
    /\ pc = "solved"
    /\ routeGeometry' = RouteGeometry(geometryMap, steps, routeGeometry)
    /\ pc' = "stitched"
    /\ UNCHANGED <<N, promises, bi, results, odd, durations, distances, geometryMap,
                   steps, solveVars>>

(***************************************************************************)
(* The stitching of a route over three locations, from the state in which  *)
(* solve has built the tables and the geometry map and has sent the        *)
(* problem to the solver; up to MaxOdd legs were answered with a geometry  *)
(* that is not the encoded road.                                           *)
(***************************************************************************)
\* a problem of n jobs, job k at (k - 1, k - 1), and a vehicle without start or end
PlainProblem(n) ==
    [jobs |-> [k \in 1..n |-> Job(k, <<Whole(k - 1), Whole(k - 1)>>)],
     shipments |-> <<>>,
     vehicles |-> <<Vehicle(1, NoCoord, NoCoord, NoIndex, NoIndex, NoProfile)>>,
     matrices |-> NoMatrices]

\* the geometry of the answer for the leg (i, j), by the kind of its shape
ShapeOf(kind, i, j) ==
    CASE kind = "absent" -> GeomAbsent
      [] kind = "coordinates" -> GeomCoordinates(<<<<i, i>>, <<j, j>>>>)
      [] kind = "array" -> GeomPolylineArray(PlainGeometry(i, j))
      [] kind = "emptyArray" -> GeomPolylineArray(<<>>)
      [] OTHER -> GeomString(PlainGeometry(i, j))

OddKinds == {"absent", "coordinates", "array", "emptyArray"}

\* the promises of a matrix of n locations, each leg answered once: with the
\* geometry of kind kinds[p] for p in its domain, with the encoded road otherwise
SettledPromises(n, kinds) ==
    [p \in 1..(n * n) |->
        LET i == (p - 1) \div n
            j == (p - 1) % n
            kind == IF p \in DOMAIN kinds THEN kinds[p] ELSE "string"
        IN  IF i = j THEN DiagonalPromise(i)
            ELSE AfterResponse(LegPromise(i, j),
                               OkRoute(PlainDuration(i, j), PlainDistance(i, j),
                                       ShapeOf(kind, i, j)))]

\* the positions of the off-diagonal promises
Legs(n) == {p \in 1..(n * n) : (p - 1) \div n # (p - 1) % n}

InitStitch ==
    /\ N = SmallestWithLegs(2)
    /\ \E oddLegs \in {x \in SUBSET Legs(N) : Cardinality(x) <= MaxOdd} :
          \E kinds \in [oddLegs -> OddKinds] :
              promises = SettledPromises(N, kinds)
    /\ results = [p \in 1..(N * N) |-> promises[p].entry]
    /\ bi = Concurrency
    /\ odd = 0
    /\ durations = ConvertMatrixEntriesToMatrices(results, N).durations
    /\ distances = ConvertMatrixEntriesToMatrices(results, N).distances
    /\ geometryMap = FillGeometryMap(EmptyMap, results)
    /\ problem = PlainProblem(N)
    /\ orsOptions = NoProfile
    /\ locations = ExtractLocations(problem)
    /\ problemWithMatrix =
          ProblemWithMatrix(problem, orsOptions, locations, durations, distances).value
    /\ error = NoError
    /\ pc = "submitted"
    /\ steps = <<>>
    /\ routeGeometry = NoGeometry

NextStitch == SolverResponds \/ Stitch

SpecStitch == InitStitch /\ [][NextStitch]_vars

(***************************************************************************)
(* solve, from its call to the request to the solver, for the problems of  *)
(* jobs, at most one shipment and one vehicle in which up to MaxFields      *)
(* things are given (jobs; locations, indexes and profiles of the shipment,*)
(* of the vehicle and of orsOptions); the directions service gives its     *)
(* ordinary answers.                                                       *)
(***************************************************************************)
CoordA == <<Whole(10), Whole(20)>>
CoordB == <<Whole(30), Whole(40)>>
CoordNaN == <<NaNNum, Whole(20)>>
Coordinates == {CoordA, CoordB, CoordNaN}

\* the lists of up to n jobs, job k with the id k, with or without a location
JobLists(n) ==
    UNION {{[k \in 1..len |-> Job(k, c[k])] :
                c \in [1..len -> {NoCoord} \cup Coordinates]} : len \in 0..n}

\* a pickup or delivery: absent, with a location, or with an index only
Tasks == {NoTask, Task(NoCoord, 0)} \cup {Task(c, NoIndex) : c \in Coordinates}

ShipmentLists ==
    {<<>>} \cup {<<Shipment(1, pickup, delivery)>> : pickup \in Tasks, delivery \in Tasks}

\* one vehicle: start and end absent or a location, start_index given or not,
\* its own profile or none
VehicleLists ==
    {<<Vehicle(1, start, end, startIndex, NoIndex, profile)>> :
        start \in {NoCoord} \cup Coordinates, end \in {NoCoord} \cup Coordinates,
        startIndex \in {NoIndex, 0}, profile \in {NoProfile, "driving-hgv"}}

\* the locations of a list that are not absent
Given(slots) == SelectSeq(slots, LAMBDA c : c # NoCoord)

\* the locations a problem names, repetitions counted
Slots(p) ==
    Given(JobLocations(p.jobs) \o ShipmentLocations(p.shipments)
              \o VehicleLocations(p.vehicles))

\* the indexes a problem comes with
RECURSIVE ShipmentIndexes(_)
ShipmentIndexes(shipments) ==
    IF shipments = <<>> THEN <<>>
    ELSE <<shipments[1].pickup.location_index, shipments[1].delivery.location_index>>
         \o ShipmentIndexes(Tail(shipments))

RECURSIVE VehicleIndexes(_)
VehicleIndexes(vehicles) ==
    IF vehicles = <<>> THEN <<>>
    ELSE <<vehicles[1].start_index, vehicles[1].end_index>>
         \o VehicleIndexes(Tail(vehicles))

Indexes(p) ==
    SelectSeq(ShipmentIndexes(p.shipments) \o VehicleIndexes(p.vehicles),
              LAMBDA i : i # NoIndex)

\* the profiles a call comes with: of the vehicles and of orsOptions
Profiles(p, orsProfile) ==
    SelectSeq([k \in 1..Len(p.vehicles) |-> p.vehicles[k].profile] \o <<orsProfile>>,
              LAMBDA x : x # NoProfile)

InitSolve ==
    /\ \E jobs \in JobLists(MaxFields), shipments \in ShipmentLists,
          vehicles \in VehicleLists :
          /\ problem = [jobs |-> jobs, shipments |-> shipments,
                        vehicles |-> vehicles, matrices |-> NoMatrices]
          /\ orsOptions \in {NoProfile, "cycling-regular"}
          /\ Len(jobs) + Len(Given(ShipmentLocations(shipments)))
                + Len(Given(VehicleLocations(vehicles))) + Len(Indexes(problem))
                + Len(Profiles(problem, orsOptions)) <= MaxFields
    /\ locations = <<>>
    /\ problemWithMatrix = NoProblem
    /\ error = NoError
    /\ N = 0
    /\ odd = 0
    /\ pc = "solve"
    /\ promises = <<>>
    /\ bi = 0
    /\ results = <<>>
    /\ durations = ZeroTable(0)
    /\ distances = ZeroTable(0)
    /\ geometryMap = EmptyMap
    /\ steps = <<>>
    /\ routeGeometry = NoGeometry

NextSolve ==
    \/ Solve
    \/ CreateMatrix
    \/ \E p \in 1..(N * N) : Respond(p)
    \/ BatchSettled
    \/ Convert
    \/ Translate

SpecSolve == InitSolve /\ [][NextSolve]_vars

(***************************************************************************)
(* solve as a whole, from its call to its return or its error, under the   *)
(* scheduling of the event loop: a response that has arrived is handled, a *)
(* timer that has run out fires, code that can run does run.  The          *)
(* directions service and the solver answer every request.                 *)
(***************************************************************************)
SolverError == [type |-> "solver", id |-> 0, location |-> NoCoord]

\* the solver's response is not ok, or the fetch rejects: solve throws
SolverFails ==
    /\ pc = "submitted"
    /\ error' = SolverError
    /\ pc' = "failed"
    /\ UNCHANGED <<N, promises, bi, results, odd, durations, distances, geometryMap,
                   steps, routeGeometry, problem, orsOptions, locations,
                   problemWithMatrix>>

\* the problem p with one more job, which has no location
WithJobWithoutLocation(p) ==
    [p EXCEPT !.jobs = Append(@, Job(Len(@) + 1, NoCoord))]

\* the calls of solve: n jobs at n places, the last job without a location or
\* not (bare); the service may give `left' answers that are not the ordinary
\* one.  The small calls, the call whose requests do not fit one window, and the
\* call in which a leg can fail on every attempt of its retry loop.
Calls ==
    {[n |-> n, left |-> 0, bare |-> b] : n \in 0..MaxN, b \in BOOLEAN}
    \cup {[n |-> SmallestWithLegs(Concurrency), left |-> 0, bare |-> FALSE],
          [n |-> SmallestWithLegs(0), left |-> MaxRetries + 1, bare |-> TRUE]}

InitLive ==
    /\ \E call \in Calls :
          /\ problem = IF call.bare
                       THEN WithJobWithoutLocation(PlainProblem(call.n))
                       ELSE PlainProblem(call.n)
          /\ odd = call.left
    /\ orsOptions = NoProfile
    /\ locations = <<>>
    /\ problemWithMatrix = NoProblem
    /\ error = NoError
    /\ N = 0
    /\ pc = "solve"
    /\ promises = <<>>
    /\ bi = 0
    /\ results = <<>>
    /\ durations = ZeroTable(0)
    /\ distances = ZeroTable(0)
    /\ geometryMap = EmptyMap
    /\ steps = <<>>
    /\ routeGeometry = NoGeometry

NextLive ==
    \/ Solve
    \/ CreateMatrix
    \/ \E p \in 1..(N * N) : Respond(p)
    \/ \E p \in 1..(N * N) : BackoffElapsed(p)
    \/ BatchSettled
    \/ PauseElapsed
    \/ Convert
    \/ Translate
    \/ SolverResponds
    \/ SolverFails
    \/ Stitch

\* no directions request is waiting for its answer
AllAnswered == \A p \in DOMAIN promises : promises[p].st # "inflight"

\* The event loop runs the code that can run and fires the timers that have run
\* out.  Every directions request is answered, so that again and again none is
\* waiting (a leg sends at most MaxRetries + 1 of them), and so is the request to
\* the solver (solve waits for it exactly when pc = "submitted").  The code that
\* follows the solver's answer runs: Stitch is enabled exactly when pc = "solved",
\* and its weak fairness is written as that.
FairLive ==
    /\ WF_vars(Solve \/ CreateMatrix \/ BatchSettled \/ PauseElapsed \/ Convert
                 \/ Translate)
    /\ WF_vars(\E p \in 1..(N * N) : BackoffElapsed(p))
    /\ []<>AllAnswered
    /\ []<>(pc # "submitted")
    /\ []<>(pc # "solved")

SpecLive == InitLive /\ [][NextLive]_vars /\ FairLive

(***************************************************************************)
(* getMatrix with a directions service that may leave a request without    *)
(* any answer.  getDirections awaits fetch without a signal or a timer, so *)
(* nothing in the program ends such a request.                             *)
(***************************************************************************)
\* the service will never answer the request of leg p: await fetch never resumes
Hang(p) ==
    /\ pc \in {"batch", "pause"}
    /\ p \in DOMAIN promises
    /\ promises[p].st = "inflight"
    /\ promises' = [promises EXCEPT ![p] = [@ EXCEPT !.st = "hung"]]
    /\ UNCHANGED <<N, pc, bi, results, odd, durations, distances, geometryMap, steps,
                   routeGeometry, solveVars>>

InitHang ==
    /\ InitSmall
    /\ InitCommon
    /\ locations = PlainLocations(N)
    /\ problem = NoProblem
    /\ orsOptions = NoProfile
    /\ problemWithMatrix = NoProblem
    /\ error = NoError

NextHang ==
    \/ CreateMatrix
    \/ \E p \in 1..(N * N) : Respond(p)
    \/ \E p \in 1..(N * N) : Hang(p)
    \/ \E p \in 1..(N * N) : BackoffElapsed(p)
    \/ BatchSettled
    \/ Convert

\* the event loop runs the code that can run and fires the timers that have run
\* out; a request is answered unless the service leaves it without answer
FairHang ==
    /\ WF_vars(CreateMatrix \/ BatchSettled \/ Convert)
    /\ WF_vars(\E p \in 1..(N * N) : BackoffElapsed(p))
    /\ []<>AllAnswered

SpecHang == InitHang /\ [][NextHang]_vars /\ FairHang

(***************************************************************************)
(* Properties of the matrix build.                                         *)
(***************************************************************************)
\* the legs whose request is sent and not yet answered
InFlight == {p \in DOMAIN promises : promises[p].st = "inflight"}

\* every attempt of leg p so far has failed, and it has made at least one
AlwaysFailed(p) == promises[p].answered > 0 /\ promises[p].failed = promises[p].answered

\* every response to leg p so far has had status 429, and there is at least one
AlwaysLimited(p) == promises[p].answered > 0 /\ promises[p].limited = promises[p].answered

\* the leg p was answered once, with the ordinary answer
AnsweredPlainly(p) ==
    /\ promises[p].answered = 1
    /\ promises[p].answer = Plain(promises[p].from, promises[p].to)

Cell(p) == <<promises[p].from, promises[p].to>>

\* C1: during createMatrix, at most 10 directions requests are in flight at any
\* moment, whatever the number of locations.
C1_AtMostTenInFlight == Cardinality(InFlight) <= 10

\* C2: no request of a later batch of 10 promises is sent before every earlier batch
\* has completed and the pause after it has elapsed (executeWithConcurrency's i has
\* reached the batch).
C2_BatchesInOrder ==
    \A p \in DOMAIN promises :
        promises[p].requests > 0 => 10 * ((p - 1) \div 10) <= bi

\* C3: the duration table and the distance table are both exactly N x N, every cell
\* is a finite number and every diagonal cell is exactly 0, whatever the legs'
\* outcomes.
C3_TablesFinite ==
    pc = "converted" =>
        /\ DOMAIN durations = (0..(N - 1)) \X (0..(N - 1))
        /\ DOMAIN distances = (0..(N - 1)) \X (0..(N - 1))
        /\ \A c \in DOMAIN durations : CellFinite(durations[c])
        /\ \A c \in DOMAIN distances : CellFinite(distances[c])
        /\ \A i \in 0..(N - 1) :
              durations[<<i, i>>] = IntCell(0) /\ distances[<<i, i>>] = IntCell(0)

\* C4: when an off-diagonal leg fails on every attempt, createMatrix still returns
\* and the tables are built; the leg's cell holds 999999 / 999999000 and no geometry
\* is recorded for it, and every other cell holds what its own leg gives: the
\* diagonal 0, a leg with the ordinary answer its rounded duration, its rounded
\* distance and its road.
C4_FailedLegIsSentinel ==
    pc = "converted" =>
        \A p \in DOMAIN promises :
            (Cell(p)[1] # Cell(p)[2] /\ AlwaysFailed(p)) =>
                /\ durations[Cell(p)] = IntCell(999999)
                /\ distances[Cell(p)] = IntCell(999999000)
                /\ Cell(p) \notin DOMAIN geometryMap
                /\ \A q \in DOMAIN promises \ {p} :
                      /\ Cell(q)[1] = Cell(q)[2] =>
                            /\ durations[Cell(q)] = IntCell(0)
                            /\ distances[Cell(q)] = IntCell(0)
                            /\ Cell(q) \notin DOMAIN geometryMap
                      /\ AnsweredPlainly(q) =>
                            /\ durations[Cell(q)] =
                                  IntCell(10 * (Cell(q)[1] + 1) + Cell(q)[2] + 1)
                            /\ distances[Cell(q)] =
                                  IntCell(1000 * (Cell(q)[1] + 1) + 250 * Cell(q)[2] + 1)
                            /\ Cell(q) \in DOMAIN geometryMap
                            /\ geometryMap[Cell(q)].s = PlainGeometry(Cell(q)[1], Cell(q)[2])

\* a leg failed four times (the retries exhausted), the other leg of the matrix was
\* answered plainly, and the tables are built
C4_Witness ==
    /\ pc = "converted"
    /\ \E p, q \in DOMAIN promises :
          /\ p # q
          /\ AlwaysFailed(p) /\ promises[p].requests = 4
          /\ AnsweredPlainly(q)

\* C5: a leg answered 429 every time makes exactly 4 attempts, waits 2000, 4000 and
\* 8000 ms before the 2nd, 3rd and 4th, waits at no other time, and then
\* getDirectionsWithRetry raises; there is no 5th attempt.
C5_RateLimitedRetries ==
    \A p \in DOMAIN promises :
        /\ promises[p].requests <= 4
        /\ AlwaysLimited(p) =>
              LET q == promises[p] IN
              /\ q.waits = SubSeq(<<2000, 4000, 8000>>, 1, Len(q.waits))
              /\ q.answered < 4 =>
                    /\ ~q.thrown
                    /\ Len(q.waits) = q.answered
                    /\ q.st \in {"backoff", "inflight"}
                    /\ q.requests = IF q.st = "backoff" THEN q.answered
                                    ELSE q.answered + 1
              /\ q.answered >= 4 =>
                    /\ q.answered = 4 /\ q.requests = 4
                    /\ q.thrown /\ q.st = "settled"
                    /\ q.waits = <<2000, 4000, 8000>>

\* a leg was answered 429 four times and its retry loop has raised
C5_Witness ==
    \E p \in DOMAIN promises :
        AlwaysLimited(p) /\ promises[p].answered = 4 /\ promises[p].thrown

\* the response is a failure: fetch rejected, or a non-2xx status
IsFailure(r) == r.kind \in {"transport", "http"}

\* C6: after an attempt fails with a transport error or a response whose
\* status is not 429, the error propagates at once: no backoff delay and no further
\* attempt.
C6_Non429Propagates ==
    \A p \in DOMAIN promises :
        LET q == promises[p] IN
        (IsFailure(q.answer) /\ ~(q.answer.kind = "http" /\ q.answer.status = 429)) =>
            q.st = "settled" /\ q.thrown

\* C7: for each of the three upstream shapes (encoded string, coordinate list,
\* nested polyline field) the geometry stored in the MatrixEntry is absent or an
\* encoded path: a string that polyline.decode turns into the road's points.
C7_GeometryIsEncodedPath ==
    \A p \in DOMAIN promises :
        LET q == promises[p] IN
        (/\ q.st = "settled" /\ q.answer.kind = "ok"
         /\ q.answer.routes > 0 /\ q.answer.summary
         /\ q.answer.geometry.t \in {"string", "coordinates", "polyline"}) =>
            /\ q.entry.geometry.t \in {"undefined", "string"}
            /\ q.entry.geometry.t = "string" =>
                  PolylineDecode(q.entry.geometry.s) = <<Pt(q.from), Pt(q.to)>>

\* C14: a 2xx response with zero routes gives an ordinary entry, not an error:
\* duration 999999 and distance 999999 before scaling, no geometry; the leg sends no
\* further request, and its cells are the finite 999999 and 999999000.
C14_ZeroRoutesIsSentinel ==
    \A p \in DOMAIN promises :
        LET q == promises[p] IN
        (q.answer.kind = "ok" /\ q.answer.routes = 0) =>
            /\ q.st = "settled" /\ ~q.thrown
            /\ q.requests = q.answered
            /\ q.entry = [from |-> q.from, to |-> q.to, distance |-> Whole(999999),
                          duration |-> Whole(999999), geometry |-> GeomUndefined]
            /\ pc = "converted" =>
                  /\ durations[Cell(p)] = IntCell(999999)
                  /\ distances[Cell(p)] = IntCell(999999000)
                  /\ Cell(p) \notin DOMAIN geometryMap

\* a leg was answered once, with zero routes, and the tables are built
C14_Witness ==
    /\ pc = "converted"
    /\ \E p \in DOMAIN promises :
          promises[p].answer = NoRoutes /\ promises[p].requests = 1

\* n is the fraction num / den rounded to the nearest integer, halves upwards:
\* n - 1/2 <= num / den < n + 1/2
IsRounded(n, num, den) ==
    /\ -den <= 2 * (num - n * den)
    /\ 2 * (num - n * den) < den

\* the value of an entry is null, undefined, NaN or infinite
Substituted(x) == x.k \in {"null", "undefined", "NaN", "Infinity", "-Infinity"}

\* C15: for every entry, durations[from][to] is round(duration) and
\* distances[from][to] is round(distance * 1000) when the value is a finite number,
\* and 999999 / 999999000 when the value is null, undefined, NaN or infinite: the
\* substitution comes first, no such value is rounded.  (The product of a finite
\* distance beyond the range of doubles is Infinity, and so is its rounding.)
C15_RoundAfterSubstitution ==
    pc = "converted" =>
        \A k \in DOMAIN results :
            LET e == results[k]
                c == <<e.from, e.to>>
            IN  /\ e.duration.k = "fin" =>
                      /\ durations[c].k = "int"
                      /\ IsRounded(durations[c].m, e.duration.m, Den)
                /\ e.distance.k = "fin" =>
                      /\ distances[c].k = "int"
                      /\ IsRounded(distances[c].m, e.distance.m, Den \div 1000)
                /\ Substituted(e.duration) => durations[c] = IntCell(999999)
                /\ Substituted(e.distance) => distances[c] = IntCell(999999000)
                /\ e.duration.k = "huge" => durations[c] = e.duration
                /\ e.distance.k = "huge" => distances[c] = PosInf

\* the tables are built from an entry whose duration is null and an entry whose
\* duration has a fraction to round
C15_Witness ==
    /\ pc = "converted"
    /\ \E k \in DOMAIN results : results[k].duration = NullNum
    /\ \E k \in DOMAIN results :
          /\ results[k].duration.k = "fin"
          /\ results[k].duration.m % Den # 0
          /\ results[k].distance.k = "fin"
          /\ results[k].distance.m % (Den \div 1000) # 0

\* C17: a diagonal pair (i, i) gets duration 0, distance 0 and no geometry without
\* any directions request; an off-diagonal pair sends between 1 and 4 requests.
C17_DiagonalSendsNothing ==
    \A p \in DOMAIN promises :
        LET q == promises[p] IN
        /\ q.from = q.to =>
              /\ q.requests = 0 /\ q.answered = 0
              /\ q.st = "settled"
              /\ q.entry = [from |-> q.from, to |-> q.to, distance |-> Whole(0),
                            duration |-> Whole(0), geometry |-> GeomUndefined]
        /\ q.from # q.to => 1 <= q.requests /\ q.requests <= 4
        /\ (pc = "converted" /\ q.from = q.to) =>
              /\ durations[Cell(p)] = IntCell(0) /\ distances[Cell(p)] = IntCell(0)
              /\ Cell(p) \notin DOMAIN geometryMap

\* the matrix is built; one leg has sent 4 requests, another 1
C17_Witness ==
    /\ pc = "converted"
    /\ \E p, q \in DOMAIN promises :
          promises[p].requests = 4 /\ promises[q].requests = 1

\* C18: 429 is the only status that triggers a retry: after a non-2xx response with
\* another status, whatever its body, the leg neither waits nor sends a further
\* request.
C18_Only429Retries ==
    \A p \in DOMAIN promises :
        LET q == promises[p] IN
        (q.answer.kind = "http" /\ q.st \in {"backoff", "inflight"}) =>
            q.answer.status = 429

\* the entries list with the entries at positions a and b exchanged
Swapped(entries, a, b) ==
    [k \in DOMAIN entries |->
        IF k = a THEN entries[b] ELSE IF k = b THEN entries[a] ELSE entries[k]]

\* the entries list in the order perm
Permuted(entries, perm) == [k \in DOMAIN entries |-> entries[perm[k]]]

Reversed(entries) == [k \in DOMAIN entries |-> entries[Len(entries) + 1 - k]]

\* the orders of the entries list that are compared: every permutation of a list
\* of up to 4 entries; for a longer list every exchange of two neighbours and the
\* reverse order
Reorderings(entries) ==
    IF Len(entries) <= 4
    THEN {Permuted(entries, perm) : perm \in Permutations(DOMAIN entries)}
    ELSE {Swapped(entries, a, a + 1) : a \in 1..(Len(entries) - 1)}
         \cup {Reversed(entries)}

\* C19: the tables and the geometry map do not depend on the order of the entries:
\* every reordering of the entry list gives the same duration table, distance table
\* and geometry map; and the entries are converted only when all N * N are there.
C19_AssemblyCommutes ==
    /\ pc \in {"returned", "converted"} =>
          /\ Len(results) = N * N
          /\ \A p \in DOMAIN promises : promises[p].st = "settled"
    /\ pc = "converted" =>
          \A entries \in Reorderings(results) :
              /\ ConvertMatrixEntriesToMatrices(entries, N)
                    = [durations |-> durations, distances |-> distances]
              /\ FillGeometryMap(EmptyMap, entries) = geometryMap

\* the tables are built from entries that differ: one leg failed, another has the
\* ordinary answer and its road
C19_Witness ==
    /\ pc = "converted"
    /\ \E p, q \in DOMAIN promises :
          /\ promises[p].thrown
          /\ AnsweredPlainly(q)
          /\ Cell(q) \in DOMAIN geometryMap

\* C20: createMatrix yields exactly N * N entries and every ordered pair (from, to)
\* with 0 <= from, to < N occurs in exactly one of them: no cell and no geometry key
\* belongs to two tasks.
C20_EntriesDisjoint ==
    /\ \A p, q \in DOMAIN promises :
          (promises[p].from = promises[q].from /\ promises[p].to = promises[q].to)
              => p = q
    /\ pc \in {"returned", "converted"} =>
          /\ Len(results) = N * N
          /\ \A i, j \in 0..(N - 1) :
                Cardinality({k \in DOMAIN results :
                                results[k].from = i /\ results[k].to = j}) = 1

\* createMatrix has returned the entries of a matrix built in two batches
C20_Witness ==
    /\ pc = "returned"
    /\ Len(results) > Concurrency
    /\ bi > 0

(***************************************************************************)
(* Properties of the route geometry.                                       *)
(***************************************************************************)
\* the consecutive step pairs of the route
Pairs == 1..(Len(steps) - 1)

\* the pair k of the route has a geometry in the map
Recorded(k) ==
    /\ steps[k] # NoIndex /\ steps[k + 1] # NoIndex
    /\ <<steps[k], steps[k + 1]>> \in DOMAIN geometryMap

Edge(k) == geometryMap[<<steps[k], steps[k + 1]>>]

\* the points of the segments k..Len(steps)-1, each without its first point
RECURSIVE LaterPoints(_)
LaterPoints(k) ==
    IF k > Len(steps) - 1 THEN <<>>
    ELSE Tail(PolylineDecode(Edge(k).s)) \o LaterPoints(k + 1)

\* C8: for a route all of whose consecutive step pairs have a recorded encoded
\* geometry, the combined geometry decodes to all points of the first edge's
\* segment followed, in step order, by each later segment's points without its
\* first point.
C8_StitchDropsJunctions ==
    (/\ pc = "stitched" /\ Len(steps) > 1
     /\ \A k \in Pairs : Recorded(k) /\ Edge(k).t = "string") =>
        /\ routeGeometry.t = "string"
        /\ PolylineDecode(routeGeometry.s) =
              PolylineDecode(Edge(1).s) \o LaterPoints(2)

\* the segments [(0,0),(1,1)] and [(1,1),(2,2)] give [(0,0),(1,1),(2,2)]
C8_Witness ==
    /\ pc = "stitched"
    /\ steps = <<0, 1, 2>>
    /\ PolylineDecode(Edge(1).s) = <<<<0, 0>>, <<100000, 100000>>>>
    /\ PolylineDecode(Edge(2).s) = <<<<100000, 100000>>, <<200000, 200000>>>>
    /\ PolylineDecode(routeGeometry.s) =
          <<<<0, 0>>, <<100000, 100000>>, <<200000, 200000>>>>

\* C9: for a route none of whose consecutive step pairs has a recorded geometry
\* (fewer than two steps and steps without a location index included), solve
\* completes and the route's combined geometry is absent.
C9_NoGeometryStaysAbsent ==
    (pc = "stitched" /\ \A k \in Pairs : ~Recorded(k)) =>
        routeGeometry.t = "undefined"

\* a route of three steps: its first pair is a leg for which no geometry was
\* recorded, its last step has no location index
C9_Witness ==
    /\ pc = "stitched"
    /\ Len(steps) = 3
    /\ steps[1] # NoIndex /\ steps[2] # NoIndex /\ steps[1] # steps[2]
    /\ steps[3] = NoIndex
    /\ \A k \in Pairs : ~Recorded(k)

\* decoding fails on the chain: a geometry that has a length and is not a string
DecodeFails == \E k \in Pairs : Recorded(k) /\ HasLength(Edge(k)) /\ Edge(k).t # "string"

\* C10: when decoding fails for a segment of the chain, solve does not fail: the
\* route's geometry is the first non-empty edge geometry of the chain, in step
\* order, and is not left absent.
C10_FallbackToFirstGeometry ==
    (pc = "stitched" /\ DecodeFails) =>
        /\ routeGeometry.t # "undefined"
        /\ \E k \in Pairs :
              /\ Recorded(k) /\ HasLength(Edge(k))
              /\ routeGeometry = Edge(k)
              /\ \A h \in 1..(k - 1) : ~(Recorded(h) /\ HasLength(Edge(h)))

\* decoding fails on the second edge, and the route gets the first edge's geometry
C10_Witness ==
    /\ pc = "stitched"
    /\ Len(steps) = 3
    /\ Recorded(1) /\ Edge(1).t = "string"
    /\ Recorded(2) /\ Edge(2).t = "array" /\ HasLength(Edge(2))
    /\ routeGeometry = Edge(1)

\* the pairs of the route whose geometry the stitcher decodes, in step order
RECURSIVE DecodedPairs(_)
DecodedPairs(k) ==
    IF k > Len(steps) - 1 THEN <<>>
    ELSE (IF Recorded(k) /\ HasLength(Edge(k)) THEN <<k>> ELSE <<>>)
         \o DecodedPairs(k + 1)

\* the path the stitcher has built from the first i of the segments
PathOf(segments, i) == Combine(SubSeq(segments, 1, i), 1)

\* C25: for every route whose recorded geometries are the encoded roads of their
\* legs, step pairs without a recorded geometry being skipped, the point that the
\* stitcher drops from a later segment (its first) equals the last point of the
\* path built so far, and so every point of every recorded geometry is on the
\* combined path.
C25_DropsOnlyDuplicates ==
    (/\ pc = "stitched"
     /\ \A k \in Pairs : Recorded(k) =>
           Edge(k) = [t |-> "string",
                      s |-> PlainGeometry(steps[k], steps[k + 1])]) =>
        LET pairs == DecodedPairs(1)
            segments == [i \in 1..Len(pairs) |-> PolylineDecode(Edge(pairs[i]).s)]
        IN  /\ \A i \in 2..Len(segments) :
                  LET path == PathOf(segments, i - 1)
                  IN  segments[i][1] = path[Len(path)]
            /\ pairs # <<>> =>
                  \A i \in 1..Len(segments) : \A j \in 1..Len(segments[i]) :
                      \E h \in 1..Len(PolylineDecode(routeGeometry.s)) :
                          PolylineDecode(routeGeometry.s)[h] = segments[i][j]

(***************************************************************************)
(* Properties of the registry and of the translation.                      *)
(***************************************************************************)
\* the position in the scan (slots) of the first location equal to c
FirstSeen(slots, c) ==
    CHOOSE k \in DOMAIN slots :
        /\ slots[k] = c
        /\ \A h \in 1..(k - 1) : slots[h] # c

\* a and b are equal coordinates: a[0] === b[0] and a[1] === b[1]
EqualCoordinates(a, b) == StrictEquals(a[1], b[1]) /\ StrictEquals(a[2], b[2])

\* C11: extractLocations returns a list with no two equal coordinates, in the order
\* of first occurrence in the scan (jobs, then shipment pickup and delivery, then
\* vehicle start and end, absent fields skipped), and two entities with equal
\* coordinates resolve through mapLocationToIndex to the same index.
C11_RegistryDistinctInOrder ==
    pc # "solve" =>
        LET slots == Slots(problem) IN
        /\ \A i, j \in DOMAIN locations : i # j => locations[i] # locations[j]
        /\ \A k \in DOMAIN slots : \E i \in DOMAIN locations : locations[i] = slots[k]
        /\ \A i \in DOMAIN locations :
              /\ \E k \in DOMAIN slots : slots[k] = locations[i]
              /\ \A j \in DOMAIN locations :
                    i < j => FirstSeen(slots, locations[i])
                                < FirstSeen(slots, locations[j])
        /\ \A a, b \in DOMAIN slots :
              EqualCoordinates(slots[a], slots[b]) =>
                  /\ ~MapLocationToIndex(slots[a], locations).thrown
                  /\ MapLocationToIndex(slots[a], locations)
                        = MapLocationToIndex(slots[b], locations)

\* jobs A and B at (10, 20) and a vehicle start at (30, 40): two indexes, A and B
\* share index 0
C11_Witness ==
    /\ pc = "submitted"
    /\ Len(problem.jobs) = 2
    /\ problem.jobs[1].location = <<Whole(10), Whole(20)>>
    /\ problem.jobs[2].location = <<Whole(10), Whole(20)>>
    /\ problem.vehicles[1].start = <<Whole(30), Whole(40)>>
    /\ Len(locations) = 2
    /\ problemWithMatrix.jobs[1].location_index = 0
    /\ problemWithMatrix.jobs[2].location_index = 0
    /\ problemWithMatrix.vehicles[1].start_index = 1

\* the jobs of the problem that lack a location
JobsWithoutLocation ==
    {k \in DOMAIN problem.jobs : problem.jobs[k].location = NoCoord}

\* C12: if a job of the problem lacks a location, solve fails with the
\* missing-location error naming that job's id (the first such job), no translated
\* problem is produced and no request is sent to the solver.
C12_MissingLocationFails ==
    JobsWithoutLocation # {} =>
        /\ pc # "submitted"
        /\ problemWithMatrix = NoProblem
        /\ pc = "failed" =>
              /\ error.type = "missingLocation"
              /\ \E k \in JobsWithoutLocation :
                    /\ error.id = problem.jobs[k].id
                    /\ \A h \in JobsWithoutLocation : k <= h

\* the task had a location in the input and carries its index instead
TaskTranslated(old, new) ==
    /\ new.location = NoCoord
    /\ old.location # NoCoord =>
          /\ new.location_index # NoIndex
          /\ locations[new.location_index + 1] = old.location

\* C13: in the problem sent to the solver no job, pickup, delivery or vehicle has a
\* raw coordinate; every entity that had one in the input has the index of that
\* coordinate in the registry instead, so none has both.
C13_OnlyIndexes ==
    pc = "submitted" =>
        /\ Len(problemWithMatrix.jobs) = Len(problem.jobs)
        /\ Len(problemWithMatrix.shipments) = Len(problem.shipments)
        /\ Len(problemWithMatrix.vehicles) = Len(problem.vehicles)
        /\ \A k \in DOMAIN problem.jobs :
              TaskTranslated(problem.jobs[k], problemWithMatrix.jobs[k])
        /\ \A k \in DOMAIN problem.shipments :
              /\ TaskTranslated(problem.shipments[k].pickup,
                                problemWithMatrix.shipments[k].pickup)
              /\ TaskTranslated(problem.shipments[k].delivery,
                                problemWithMatrix.shipments[k].delivery)
        /\ \A k \in DOMAIN problem.vehicles :
              LET old == problem.vehicles[k]
                  new == problemWithMatrix.vehicles[k]
              IN  /\ new.start = NoCoord /\ new.end = NoCoord
                  /\ old.start # NoCoord =>
                        /\ new.start_index # NoIndex
                        /\ locations[new.start_index + 1] = old.start
                  /\ old.end # NoCoord =>
                        /\ new.end_index # NoIndex
                        /\ locations[new.end_index + 1] = old.end

\* a job, a pickup and a vehicle start came with coordinates, and the problem is
\* sent
C13_Witness ==
    /\ pc = "submitted"
    /\ Len(problem.jobs) = 1 /\ Len(problem.shipments) = 1
    /\ problem.jobs[1].location # NoCoord
    /\ problem.shipments[1].pickup.location # NoCoord
    /\ problem.vehicles[1].start # NoCoord
    /\ problem.vehicles[1].start # problem.jobs[1].location
    /\ problemWithMatrix.vehicles[1].start_index # NoIndex

\* the operation-wide profile: orsOptions.profile, 'driving-car' when none is given
OperationProfile == IF orsOptions # NoProfile THEN orsOptions ELSE "driving-car"

\* C16: in the translated problem every vehicle has a profile: its own when it
\* specified one, the operation-wide profile otherwise; and the tables are attached
\* under exactly one key, the operation-wide profile.
C16_ExplicitProfiles ==
    pc = "submitted" =>
        /\ \A k \in DOMAIN problem.vehicles :
              /\ problemWithMatrix.vehicles[k].profile # NoProfile
              /\ problemWithMatrix.vehicles[k].profile =
                    IF problem.vehicles[k].profile # NoProfile
                    THEN problem.vehicles[k].profile
                    ELSE OperationProfile
        /\ DOMAIN problemWithMatrix.matrices = {OperationProfile}
        /\ problemWithMatrix.matrices[OperationProfile] =
              [durations |-> durations, distances |-> distances]

\* a vehicle with its own profile in an operation with another profile
C16_Witness ==
    /\ pc = "submitted"
    /\ orsOptions = "cycling-regular"
    /\ problem.vehicles[1].profile = "driving-hgv"
    /\ problemWithMatrix.vehicles[1].profile = "driving-hgv"
    /\ N > 0

\* C23: in the problem sent to the solver, a vehicle start or end and a shipment
\* pickup or delivery that came without a raw coordinate is as it came: an index
\* that was resolved beforehand (start_index, end_index, location_index) is kept.
C23_PreResolvedKept ==
    pc = "submitted" =>
        /\ \A k \in DOMAIN problem.shipments :
              LET old == problem.shipments[k]
                  new == problemWithMatrix.shipments[k]
              IN  /\ old.pickup.location = NoCoord => new.pickup = old.pickup
                  /\ old.delivery.location = NoCoord => new.delivery = old.delivery
        /\ \A k \in DOMAIN problem.vehicles :
              LET old == problem.vehicles[k]
                  new == problemWithMatrix.vehicles[k]
              IN  /\ old.start = NoCoord => new.start_index = old.start_index
                  /\ old.end = NoCoord => new.end_index = old.end_index

\* the index the translation has put in place of the location `given'
Assigned(given, index) == given # NoCoord => index \in 0..(N - 1)

\* C24: when every job of the problem has a location, no lookup of the translation
\* fails with the location-not-found error, and every location_index, start_index
\* and end_index it assigns is an integer of 0..N-1, N being the number of
\* registered coordinates and the dimension of the tables.
C24_LookupsSucceed ==
    JobsWithoutLocation = {} =>
        /\ N = Len(locations)
        /\ error.type # "locationNotFound"
        /\ pc = "submitted" =>
              /\ DOMAIN durations = (0..(N - 1)) \X (0..(N - 1))
              /\ DOMAIN distances = (0..(N - 1)) \X (0..(N - 1))
              /\ \A k \in DOMAIN problem.jobs :
                    Assigned(problem.jobs[k].location,
                             problemWithMatrix.jobs[k].location_index)
              /\ \A k \in DOMAIN problem.shipments :
                    /\ Assigned(problem.shipments[k].pickup.location,
                                problemWithMatrix.shipments[k].pickup.location_index)
                    /\ Assigned(problem.shipments[k].delivery.location,
                                problemWithMatrix.shipments[k].delivery.location_index)
              /\ \A k \in DOMAIN problem.vehicles :
                    /\ Assigned(problem.vehicles[k].start,
                                problemWithMatrix.vehicles[k].start_index)
                    /\ Assigned(problem.vehicles[k].end,
                                problemWithMatrix.vehicles[k].end_index)

\* C26: in the problem sent to the solver, the profile of every vehicle is a key
\* of the matrices: tables of durations and distances are attached under it.
C26_VehicleProfileHasMatrix ==
    pc = "submitted" =>
        \A k \in DOMAIN problemWithMatrix.vehicles :
            problemWithMatrix.vehicles[k].profile \in DOMAIN problemWithMatrix.matrices

\* the directions requests sent so far
RequestsSent ==
    LET count[p \in 0..Len(promises)] ==
            IF p = 0 THEN 0 ELSE count[p - 1] + promises[p].requests
    IN  count[Len(promises)]

\* C27: when a job of the problem lacks a location, solve sends no directions
\* request: the missing-location error comes before the matrix build.
C27_ErrorBeforeRequests == JobsWithoutLocation # {} => RequestsSent = 0

(***************************************************************************)
(* Properties of solve as a whole.                                         *)
(***************************************************************************)
\* createMatrix has returned to solve
Returned == pc \notin {"solve", "start", "batch", "pause"}

\* solve has returned its solution or thrown its error
Ended == pc \in {"stitched", "failed"}

Hung == {p \in DOMAIN promises : promises[p].st = "hung"}

\* C22: a directions request that the service never answers is ended by a
\* timeout: its leg gets the sentinel entry and createMatrix returns.
C22_HungRequestTimesOut ==
    [](Hung # {} =>
          <>(/\ Returned
             /\ \A p \in Hung : results[p] = UnreachableEntry(promises[p].from,
                                                               promises[p].to)))
====
